---------------------------- MODULE Spec2Model ----------------------------
(***************************************************************************)
(* PuttyForRaycast: the session record mapper (registry <-> form values)   *)
(* and the handlers that drive it (create, list, edit, temporary open,     *)
(* launch, delete).                                                        *)
(*                                                                         *)
(* Strings are sequences of code points (Nat): <<97, 32>> is "a ".  The    *)
(* registry is a function from the child keys of                           *)
(* HKCU\Software\SimonTatham\PuTTY\Sessions to their values; a value that  *)
(* is not set is <<>>, a value that is set is <<v>>.                       *)
(***************************************************************************)
EXTENDS Integers, Sequences, FiniteSets, TLC

(***************************************************************************)
(* Bounds of the model.                                                    *)
(***************************************************************************)
\* Longest session name drawn for the codec and listing specifications.
MaxNameLen == 3
\* Number of handler invocations that may be in progress at once.
MaxTasks == 2

(***************************************************************************)
(* encodeURIComponent / decodeURIComponent (ECMA-262 19.2.6), which        *)
(* encodeSessionKey and decodeSessionKey delegate to.                      *)
(***************************************************************************)
\* 0-9, A-Z, a-z and - _ . ! ~ * ' ( ) are left as they are.
IsUnreserved(c) ==
    \/ c \in 48..57
    \/ c \in 65..90
    \/ c \in 97..122
    \/ c \in {45, 95, 46, 33, 126, 42, 39, 40, 41}

\* The upper-case hexadecimal digit of d, as a code point.
HexUpper(d) == IF d < 10 THEN 48 + d ELSE 55 + d

\* The value of a hexadecimal digit (either case), or -1.
HexValue(c) ==
    IF c \in 48..57 THEN c - 48
    ELSE IF c \in 65..70 THEN c - 55
    ELSE IF c \in 97..102 THEN c - 87
    ELSE -1

\* The UTF-8 bytes of a code point.
Utf8Bytes(c) ==
    IF c < 128 THEN <<c>>
    ELSE IF c < 2048 THEN <<192 + (c \div 64), 128 + (c % 64)>>
    ELSE IF c < 65536 THEN
        <<224 + (c \div 4096), 128 + ((c \div 64) % 64), 128 + (c % 64)>>
    ELSE <<240 + (c \div 262144), 128 + ((c \div 4096) % 64),
           128 + ((c \div 64) % 64), 128 + (c % 64)>>

RECURSIVE PercentBytes(_)
PercentBytes(bs) ==
    IF bs = <<>> THEN <<>>
    ELSE <<37, HexUpper(Head(bs) \div 16), HexUpper(Head(bs) % 16)>>
         \o PercentBytes(Tail(bs))

RECURSIVE EncodeURIComponent(_)
EncodeURIComponent(s) ==
    IF s = <<>> THEN <<>>
    ELSE (IF IsUnreserved(Head(s)) THEN <<Head(s)>>
          ELSE PercentBytes(Utf8Bytes(Head(s))))
         \o EncodeURIComponent(Tail(s))

\* The byte a "%XY" at position i of s stands for, or -1 when there is none.
ByteAt(s, i) ==
    IF i + 2 <= Len(s) /\ s[i] = 37
       /\ HexValue(s[i + 1]) >= 0 /\ HexValue(s[i + 2]) >= 0
    THEN 16 * HexValue(s[i + 1]) + HexValue(s[i + 2])
    ELSE -1

\* The length in bytes of the UTF-8 sequence a lead byte opens, or 0.
Utf8Length(b) ==
    IF b < 128 THEN 1
    ELSE IF b \in 194..223 THEN 2
    ELSE IF b \in 224..239 THEN 3
    ELSE IF b \in 240..244 THEN 4
    ELSE 0

\* The code point of a multi-byte sequence of n bytes opened by b at i, or -1.
RECURSIVE Continuation(_, _, _, _)
Continuation(s, i, n, acc) ==
    IF n = 0 THEN acc
    ELSE LET b == ByteAt(s, i)
         IN  IF b \in 128..191
             THEN Continuation(s, i + 3, n - 1, acc * 64 + (b - 128))
             ELSE -1

MultiByte(s, i, b) ==
    LET n  == Utf8Length(b)
        hi == IF n = 2 THEN b - 192 ELSE IF n = 3 THEN b - 224 ELSE b - 240
        cp == Continuation(s, i + 3, n - 1, hi)
        lo == IF n = 2 THEN 128 ELSE IF n = 3 THEN 2048 ELSE 65536
    IN  IF cp < lo \/ cp > 1114111 \/ cp \in 55296..57343 THEN -1 ELSE cp

\* decodeURIComponent: [ok |-> TRUE, val |-> the decoded string], or
\* [ok |-> FALSE] where the engine throws URIError.
RECURSIVE DecodeFrom(_, _, _)
DecodeFrom(s, i, acc) ==
    IF i > Len(s) THEN [ok |-> TRUE, val |-> acc]
    ELSE IF s[i] # 37 THEN DecodeFrom(s, i + 1, Append(acc, s[i]))
    ELSE LET b == ByteAt(s, i)
         IN  IF b < 0 \/ Utf8Length(b) = 0 THEN [ok |-> FALSE, val |-> <<>>]
             ELSE IF b < 128 THEN DecodeFrom(s, i + 3, Append(acc, b))
             ELSE LET cp == MultiByte(s, i, b)
                  IN  IF cp < 0 THEN [ok |-> FALSE, val |-> <<>>]
                      ELSE DecodeFrom(s, i + 3 * Utf8Length(b), Append(acc, cp))

DecodeURIComponent(s) == DecodeFrom(s, 1, <<>>)

decodeSessionKey(encoded) ==
    LET r == DecodeURIComponent(encoded)
    IN  IF r.ok THEN r.val ELSE encoded

\* The raw name used as the key, unescaped.
MutEncodeSessionKey(raw) == raw

encodeSessionKey(raw) == EncodeURIComponent(raw)

(***************************************************************************)
(* Number(values.port): ECMA-262 StringToNumber on the port field's text.  *)
(* The result is [isInt |-> Number.isInteger(n), val |-> n when isInt].    *)
(* NaN, fractions and Infinity are not integers.  Values beyond 10^6 are   *)
(* kept as 10^6: the handlers only compare the number with 0 and 65535.    *)
(***************************************************************************)
IsWhiteSpace(c) == c \in {9, 10, 11, 12, 13, 32, 160, 65279}

RECURSIVE TrimStart(_)
TrimStart(s) ==
    IF s # <<>> /\ IsWhiteSpace(Head(s)) THEN TrimStart(Tail(s)) ELSE s

RECURSIVE TrimEnd(_)
TrimEnd(s) ==
    IF s # <<>> /\ IsWhiteSpace(s[Len(s)])
    THEN TrimEnd(SubSeq(s, 1, Len(s) - 1))
    ELSE s

\* String.prototype.trim
Trim(s) == TrimEnd(TrimStart(s))

Saturate(n) == IF n > 1000000 THEN 1000000 ELSE n

\* The value of a run of digits in the given radix (saturating).
RECURSIVE DigitsValue(_, _, _)
DigitsValue(s, radix, acc) ==
    IF s = <<>> THEN acc
    ELSE DigitsValue(Tail(s), radix, Saturate(acc * radix + HexValue(Head(s))))

\* The longest prefix of s made of digits of the radix.
RECURSIVE DigitPrefix(_, _)
DigitPrefix(s, radix) ==
    IF s # <<>> /\ HexValue(Head(s)) >= 0 /\ HexValue(Head(s)) < radix
    THEN <<Head(s)>> \o DigitPrefix(Tail(s), radix)
    ELSE <<>>

Drop(s, n) == SubSeq(s, n + 1, Len(s))

RECURSIVE Pow10(_)
Pow10(n) == IF n <= 0 THEN 1 ELSE Saturate(10 * Pow10(n - 1))

\* a * b, saturating.
Times(a, b) == IF a # 0 /\ b > 1000000 \div a THEN 1000000 ELSE a * b

NotANumber == [isInt |-> FALSE, val |-> 0]

Signed(negative, n) == [isInt |-> TRUE, val |-> IF negative THEN 0 - n ELSE n]

\* StrDecimalLiteral without its sign: digits [. digits] [e [+-] digits], or
\* . digits [e ...]; anything else is NaN.  The parse runs left to right,
\* one operator per part of the literal.
\* mant * 10^scale: an integer, or not.
DecimalValue(negative, mant, scale) ==
    IF scale >= 0 THEN Signed(negative, Times(mant, Pow10(scale)))
    ELSE IF mant % Pow10(0 - scale) = 0 THEN Signed(negative, mant \div Pow10(0 - scale))
    ELSE NotANumber

DecimalParts(negative, ip, fp, exp, wellFormed) ==
    IF ~wellFormed \/ Len(ip) + Len(fp) = 0 THEN NotANumber
    ELSE DecimalValue(negative, DigitsValue(ip \o fp, 10, 0), exp - Len(fp))

\* The digits of the exponent: all that is left, and at least one.
ExponentDigits(negative, ip, fp, expNegative, rest) ==
    DecimalParts(negative, ip, fp,
                 IF expNegative THEN 0 - DigitsValue(rest, 10, 0)
                 ELSE DigitsValue(rest, 10, 0),
                 rest # <<>> /\ DigitPrefix(rest, 10) = rest)

\* After the e: an optional sign.
ExponentSign(negative, ip, fp, rest) ==
    IF rest # <<>> /\ Head(rest) \in {43, 45}
    THEN ExponentDigits(negative, ip, fp, Head(rest) = 45, Tail(rest))
    ELSE ExponentDigits(negative, ip, fp, FALSE, rest)

\* After the fraction: an exponent, or the end.
ExponentPart(negative, ip, fp, rest) ==
    IF rest # <<>> /\ Head(rest) \in {101, 69}
    THEN ExponentSign(negative, ip, fp, Tail(rest))
    ELSE DecimalParts(negative, ip, fp, 0, rest = <<>>)

\* After the dot: the digits of the fraction.
FractionDigits(negative, ip, fp, afterDot) ==
    ExponentPart(negative, ip, fp, Drop(afterDot, Len(fp)))

\* After the integer digits: a dot and a fraction, or none.
FractionPart(negative, ip, rest) ==
    IF rest # <<>> /\ Head(rest) = 46
    THEN FractionDigits(negative, ip, DigitPrefix(Tail(rest), 10), Tail(rest))
    ELSE ExponentPart(negative, ip, <<>>, rest)

IntegerDigits(s, negative, ip) == FractionPart(negative, ip, Drop(s, Len(ip)))

DecimalLiteral(s, negative) == IntegerDigits(s, negative, DigitPrefix(s, 10))

\* 0x / 0o / 0b literals take no sign.
RadixLiteral(s, radix) ==
    LET ds == Drop(s, 2)
    IN  IF ds # <<>> /\ DigitPrefix(ds, radix) = ds
        THEN [isInt |-> TRUE, val |-> DigitsValue(ds, radix, 0)]
        ELSE NotANumber

\* A literal with its sign taken off.
UnsignedLiteral(s) ==
    IF Head(s) \in {43, 45} THEN DecimalLiteral(Tail(s), Head(s) = 45)
    ELSE DecimalLiteral(s, FALSE)

RadixOf(c) == IF c \in {120, 88} THEN 16 ELSE IF c \in {111, 79} THEN 8 ELSE 2

TrimmedNumber(s) ==
    IF s = <<>> THEN [isInt |-> TRUE, val |-> 0]
    ELSE IF Len(s) >= 2 /\ s[1] = 48 /\ s[2] \in {120, 88, 111, 79, 98, 66}
         THEN RadixLiteral(s, RadixOf(s[2]))
    ELSE UnsignedLiteral(s)

Number(text) == TrimmedNumber(Trim(text))

\* The validation every form applies before anything else:
\* !Number.isInteger(portNum) || portNum <= 0 || portNum > 65535.
\* A range check that lets 0 through.
MutPortRejected(portNum) ==
    ~portNum.isInt \/ portNum.val < 0 \/ portNum.val > 65535

PortRejected(portNum) ==
    ~portNum.isInt \/ portNum.val <= 0 \/ portNum.val > 65535

(***************************************************************************)
(* The text forms a port number passes through: the command line of        *)
(* `reg add ... /t REG_DWORD /d <n>`, reg's reading of it, the "0x16" that *)
(* `reg query` prints, and parseInt on that.                               *)
(***************************************************************************)
RECURSIVE NumberToString(_)
NumberToString(n) ==
    IF n < 10 THEN <<48 + n>> ELSE Append(NumberToString(n \div 10), 48 + (n % 10))

\* reg add /t REG_DWORD /d <text>: decimal, or hexadecimal after 0x.
RegParseDword(text) ==
    IF Len(text) >= 2 /\ text[1] = 48 /\ text[2] \in {120, 88}
    THEN DigitsValue(Drop(text, 2), 16, 0)
    ELSE DigitsValue(text, 10, 0)

HexLower(d) == IF d < 10 THEN 48 + d ELSE 87 + d

RECURSIVE HexString(_)
HexString(n) ==
    IF n < 16 THEN <<HexLower(n)>> ELSE Append(HexString(n \div 16), HexLower(n % 16))

\* reg query prints a REG_DWORD as 0x followed by lower-case hex digits.
RegPrintDword(n) == <<48, 120>> \o HexString(n)

\* What parseInt returns where it finds no digits.
NaN == -1

\* parseInt(value, radix), radix 10 or 16.
parseInt(value, radix) ==
    LET s    == TrimStart(value)
        neg  == s # <<>> /\ Head(s) = 45
        s1   == IF s # <<>> /\ Head(s) \in {43, 45} THEN Tail(s) ELSE s
        s2   == IF radix = 16 /\ Len(s1) >= 2 /\ s1[1] = 48 /\ s1[2] \in {120, 88}
                THEN Drop(s1, 2) ELSE s1
        ds   == DigitPrefix(s2, radix)
    IN  IF ds = <<>> THEN NaN
        ELSE IF neg THEN 0 - DigitsValue(ds, radix, 0)
        ELSE DigitsValue(ds, radix, 0)

(***************************************************************************)
(* The registry: the child keys of the sessions root and their values.     *)
(* The key <<>> stands for the sessions root itself.                       *)
(***************************************************************************)
NoValues ==
    [HostName |-> <<>>, PortNumber |-> <<>>, Protocol |-> <<>>, CloseOnExit |-> <<>>]

\* The enums of the form, as the text the dropdown items carry.
ProtocolValues ==
    {<<114, 97, 119>>,                      \* raw
     <<116, 101, 108, 110, 101, 116>>,      \* telnet
     <<114, 108, 111, 103, 105, 110>>,      \* rlogin
     <<115, 115, 104>>,                     \* ssh
     <<115, 101, 114, 105, 97, 108>>}       \* serial

CloseOnExitValues ==
    {<<97, 108, 119, 97, 121, 115>>,        \* always
     <<110, 101, 118, 101, 114>>,           \* never
     <<111, 110, 101, 120, 105, 116>>}      \* onexit

\* reg add "<key>" /f: creates the key when it is not there.
RegAddKey(reg, key) ==
    [k \in DOMAIN reg \cup {key} |-> IF k \in DOMAIN reg THEN reg[k] ELSE NoValues]

\* reg add "<key>" /v <name> ... /d <data> /f: sets one value, creating the
\* key when it is not there.
RegAddValue(reg, key, vname, data) ==
    [RegAddKey(reg, key) EXCEPT ![key] = [@ EXCEPT ![vname] = <<data>>]]

\* reg delete "<key>" /f
RegDelete(reg, key) == [k \in DOMAIN reg \ {key} |-> reg[k]]

\* The four value-setting commands of writeRegistryValues, in the order of
\* its `commands` array.
commands == <<"HostName", "PortNumber", "Protocol", "CloseOnExit">>

\* What the command numbered i stores: the /d text as reg reads it.
CommandData(values, i) ==
    IF commands[i] = "PortNumber"
    THEN RegParseDword(NumberToString(values.PortNumber))
    ELSE values[commands[i]]

\* The value lines `reg query "<key>"` prints, as the text after the type.
RegQueryData(rec, vname) ==
    IF vname = "PortNumber" THEN RegPrintDword(rec[vname][1]) ELSE rec[vname][1]

(***************************************************************************)
(* readSessionValues: the callback of `reg query "<key>"`.  A printed line *)
(* is "    <name>    REG_<type>    <data>"; the pattern's \s+(.+)$ and the *)
(* trim() of the capture leave the data without the white space at either  *)
(* end.                                                                    *)
(***************************************************************************)
\* Defaults with the SSH port.
MutDefaults ==
    [HostName |-> <<>>, PortNumber |-> 22,
     Protocol |-> <<114, 97, 119>>, CloseOnExit |-> <<111, 110, 101, 120, 105, 116>>]

defaults ==
    [HostName |-> <<>>, PortNumber |-> 23,
     Protocol |-> <<114, 97, 119>>, CloseOnExit |-> <<111, 110, 101, 120, 105, 116>>]

ParsePortNumber(value) ==
    IF Len(value) >= 2 /\ value[1] = 48 /\ value[2] \in {120, 88}
    THEN parseInt(value, 16)
    ELSE parseInt(value, 10)

\* The value a printed line yields for vname, or the default when the key
\* holds no such value.
ParsedValue(rec, vname) ==
    IF rec[vname] = <<>> THEN defaults[vname]
    ELSE LET value == Trim(RegQueryData(rec, vname))
         IN  IF vname = "PortNumber" THEN ParsePortNumber(value) ELSE value

readSessionValues(reg, sessionName, error) ==
    LET key == encodeSessionKey(sessionName)
    IN  IF error \/ key \notin DOMAIN reg THEN defaults
        ELSE [vname \in DOMAIN defaults |-> ParsedValue(reg[key], vname)]

(***************************************************************************)
(* String.prototype.localeCompare, after the root collation: white space,  *)
(* then punctuation, then symbols, then digits, then letters; letters      *)
(* differing only in case compare lower case first.                        *)
(***************************************************************************)
PunctuationOrder ==
    <<95, 45, 44, 59, 58, 33, 63, 46, 39, 34, 40, 41, 91, 93, 123, 125, 64, 42,
      47, 92, 38, 35, 37, 96, 94, 43, 60, 61, 62, 124, 126, 36>>

PrimaryWeight(c) ==
    IF IsWhiteSpace(c) THEN 0
    ELSE IF \E i \in DOMAIN PunctuationOrder : PunctuationOrder[i] = c
         THEN CHOOSE i \in DOMAIN PunctuationOrder : PunctuationOrder[i] = c
    ELSE IF c \in 48..57 THEN 100 + (c - 48)
    ELSE IF c \in 97..122 THEN 200 + (c - 97)
    ELSE IF c \in 65..90 THEN 200 + (c - 65)
    ELSE 1000 + c

TertiaryWeight(c) == IF c \in 65..90 THEN 1 ELSE 0

\* Lexicographic comparison of two sequences of weights: -1, 0 or 1.
RECURSIVE CompareWeights(_, _)
CompareWeights(a, b) ==
    IF a = <<>> /\ b = <<>> THEN 0
    ELSE IF a = <<>> THEN -1
    ELSE IF b = <<>> THEN 1
    ELSE IF Head(a) < Head(b) THEN -1
    ELSE IF Head(a) > Head(b) THEN 1
    ELSE CompareWeights(Tail(a), Tail(b))

PrimaryKey(a) == [i \in DOMAIN a |-> PrimaryWeight(a[i])]

TertiaryKey(a) == [i \in DOMAIN a |-> TertiaryWeight(a[i])]

localeCompare(a, b) ==
    IF CompareWeights(PrimaryKey(a), PrimaryKey(b)) # 0
    THEN CompareWeights(PrimaryKey(a), PrimaryKey(b))
    ELSE CompareWeights(TertiaryKey(a), TertiaryKey(b))

(***************************************************************************)
(* listPuttySessions: the callback of `reg query "<root>"`.                *)
(***************************************************************************)
\* The child keys in the order the registry enumerates them.
RECURSIVE Enumerate(_)
Enumerate(keys) ==
    IF keys = {} THEN <<>>
    ELSE LET first == CHOOSE k \in keys :
                          \A other \in keys : CompareWeights(k, other) <= 0
         IN  <<first>> \o Enumerate(keys \ {first})

\* Array.prototype.sort with the comparator on name: stable.
RECURSIVE InsertSorted(_, _)
InsertSorted(sorted, s) ==
    IF sorted = <<>> THEN <<s>>
    ELSE IF localeCompare(sorted[Len(sorted)].name, s.name) <= 0 THEN Append(sorted, s)
    ELSE Append(InsertSorted(SubSeq(sorted, 1, Len(sorted) - 1), s), sorted[Len(sorted)])

RECURSIVE SortSessions(_, _)
SortSessions(list, acc) ==
    IF list = <<>> THEN acc
    ELSE SortSessions(Tail(list), InsertSorted(acc, Head(list)))

\* One {id, name} per line "HKEY_...\Sessions\<id>"; the line of the root
\* itself has nothing after "Sessions" and is skipped.
ParsedSessions(ids) ==
    [i \in DOMAIN ids |-> [id |-> ids[i], name |-> decodeSessionKey(ids[i])]]

\* The entries in the order the query printed them, unsorted.
MutListPuttySessions(reg, error) ==
    IF error THEN <<>>
    ELSE LET ids == DOMAIN reg \ {<<>>}
             Printed[ks \in SUBSET ids] ==
                 IF ks = {} THEN <<>>
                 ELSE LET last == CHOOSE k \in ks :
                                      \A other \in ks : CompareWeights(k, other) <= 0
                      IN  Append(Printed[ks \ {last}], last)
         IN  ParsedSessions(Printed[ids])

listPuttySessions(reg, error) ==
    IF error THEN <<>>
    ELSE SortSessions(ParsedSessions(Enumerate(DOMAIN reg \ {<<>>})), <<>>)

(***************************************************************************)
(* State.                                                                  *)
(*   registry   the sessions root, owned by the operating system           *)
(*   sessions   the snapshot the list view holds (useState)                *)
(*   isLoading  the list view's loading flag                               *)
(*   tasks      the handler invocations: slot 0 is the list view's mount   *)
(*              effect, the others are invocations of the form and action  *)
(*              handlers, each at the await or callback it has reached     *)
(***************************************************************************)
VARIABLES registry, sessions, isLoading, tasks

vars == <<registry, sessions, isLoading, tasks>>

Slots == 1..MaxTasks

NoForm ==
    [host |-> <<>>, port |-> <<>>, protocol |-> <<>>, closeOnExit |-> <<>>,
     save |-> FALSE, savedName |-> <<>>]

NoArgs == [flag |-> "", port |-> <<>>, target |-> <<>>]

\* A slot no handler is using.
Idle ==
    [kind |-> "idle", pc |-> "idle", sessionName |-> <<>>, values |-> NoForm,
     index |-> 0, log |-> <<>>, settled |-> "pending", settles |-> 0,
     toasts |-> {}, exists |-> "unchecked", launch |-> "none", args |-> NoArgs,
     error |-> FALSE, result |-> defaults]

InProgress(task) == task.pc \notin {"idle", "done"}

\* Each slot holds one handler invocation; the next invocation takes the
\* lowest slot not yet used.
Free(t) ==
    /\ t \in Slots
    /\ tasks[t].kind = "idle"
    /\ \A u \in Slots : u < t => tasks[u].kind # "idle"

\* The two commands of the extension are separate views: the create form's
\* handler runs while no handler of the list view does, and conversely.
ListKinds == {"mount", "edit", "temp", "launch", "delete", "read"}

ListViewBusy ==
    \E t \in DOMAIN tasks :
        tasks[t].kind \in ListKinds
        /\ (InProgress(tasks[t]) \/ tasks[t].launch = "pending")

CreateBusy ==
    \E t \in DOMAIN tasks :
        tasks[t].kind = "create"
        /\ (InProgress(tasks[t]) \/ tasks[t].launch = "pending")

Ended(task, title) == [task EXCEPT !.pc = "done", !.toasts = @ \cup {title}]

\* The { HostName, PortNumber, Protocol, CloseOnExit } a submit hands to
\* writeRegistryValues.
WrittenValues(values) ==
    [HostName |-> values.host, PortNumber |-> Number(values.port).val,
     Protocol |-> values.protocol, CloseOnExit |-> values.closeOnExit]

\* add-connection: (save ? (savedName?.trim() || host.trim()) : "").trim()
CreateSessionName(values) ==
    IF values.save
    THEN Trim(IF Trim(values.savedName) # <<>> THEN Trim(values.savedName)
              ELSE Trim(values.host))
    ELSE <<>>

\* The first exec of writeRegistryValues: reg add "<baseKey>" /f.
WriteStarted(task) == [task EXCEPT !.pc = "create_key", !.log = <<"key">>]

\* The checks every submit handler opens with, then what `after` says.
Validated(task, after) ==
    IF task.values.host = <<>> THEN Ended(task, "Host is required")
    ELSE IF PortRejected(Number(task.values.port)) THEN Ended(task, "Invalid port")
    ELSE after

Started(kind, sessionName, values) ==
    [Idle EXCEPT !.kind = kind, !.sessionName = sessionName, !.values = values]

(***************************************************************************)
(* add-connection: Command.handleSubmit                                    *)
(***************************************************************************)
CreateSubmit(t, values) ==
    /\ Free(t)
    /\ ~ListViewBusy
    /\ LET task == Started("create", CreateSessionName(values), values)
       IN  tasks' = [tasks EXCEPT ![t] =
                Validated(task, IF values.save THEN WriteStarted(task)
                                ELSE [task EXCEPT !.pc = "done"])]
    /\ UNCHANGED <<registry, sessions, isLoading>>

(***************************************************************************)
(* search-connections: EditConnectionForm.handleSubmit                     *)
(***************************************************************************)
SessionNames == {sessions[i].name : i \in DOMAIN sessions}

EditSubmit(t, sessionName, values) ==
    /\ Free(t)
    /\ ~CreateBusy
    /\ sessionName \in SessionNames
    /\ LET task == Started("edit", sessionName, values)
       IN  tasks' = [tasks EXCEPT ![t] = Validated(task, WriteStarted(task))]
    /\ UNCHANGED <<registry, sessions, isLoading>>

(***************************************************************************)
(* writeRegistryValues: the callbacks of its exec calls                    *)
(***************************************************************************)
\* A failed write reported with the title of a successful one.
MutFailureTitle(kind) ==
    IF kind = "create" THEN "Session saved" ELSE "Session updated"

FailureTitle(kind) ==
    IF kind = "create" THEN "Failed to save session" ELSE "Failed to update session"

SuccessTitle(kind) ==
    IF kind = "create" THEN "Session saved" ELSE "Session updated"

\* A failed step that is passed over: the next command is issued.
MutRejected(task) ==
    IF task.index >= Len(commands)
    THEN [task EXCEPT !.settled = "resolved", !.settles = @ + 1, !.pc = "exists"]
    ELSE [task EXCEPT !.index = @ + 1, !.pc = "command",
                      !.log = Append(@, commands[task.index + 1])]

\* reject(err), caught by the handler's catch: the failure toast.
Rejected(task) ==
    [Ended(task, FailureTitle(task.kind)) EXCEPT
        !.settled = "rejected", !.settles = @ + 1]

\* resolve(), after which the handler shows the success toast and awaits
\* fileExists(puttyPath).
Resolved(task) ==
    [task EXCEPT !.settled = "resolved", !.settles = @ + 1, !.pc = "exists",
                 !.toasts = @ \cup {SuccessTitle(task.kind)}]

\* A runNext that resolves with the last command still to be issued.
MutRunNext(task) ==
    IF task.index >= Len(commands) - 1 THEN Resolved(task)
    ELSE [task EXCEPT !.index = @ + 1, !.pc = "command",
                      !.log = Append(@, commands[task.index + 1])]

\* runNext: resolve when the commands are used up, else exec the next one.
RunNext(task) ==
    IF task.index >= Len(commands) THEN Resolved(task)
    ELSE [task EXCEPT !.index = @ + 1, !.pc = "command",
                      !.log = Append(@, commands[task.index + 1])]

KeyCreated(t, err) ==
    /\ tasks[t].pc = "create_key"
    /\ IF err
       THEN /\ tasks' = [tasks EXCEPT ![t] = Rejected(@)]
            /\ UNCHANGED registry
       ELSE /\ registry' = RegAddKey(registry, encodeSessionKey(tasks[t].sessionName))
            /\ tasks' = [tasks EXCEPT ![t] = RunNext(@)]
    /\ UNCHANGED <<sessions, isLoading>>

CommandDone(t, err) ==
    /\ tasks[t].pc = "command"
    /\ IF err
       THEN /\ tasks' = [tasks EXCEPT ![t] = Rejected(@)]
            /\ UNCHANGED registry
       ELSE /\ registry' =
                  RegAddValue(registry, encodeSessionKey(tasks[t].sessionName),
                              commands[tasks[t].index],
                              CommandData(WrittenValues(tasks[t].values), tasks[t].index))
            /\ tasks' = [tasks EXCEPT ![t] = RunNext(@)]
    /\ UNCHANGED <<sessions, isLoading>>

(***************************************************************************)
(* fileExists(puttyPath) and execFile(puttyPath, args, callback)           *)
(***************************************************************************)
protocolToFlag(p) ==
    IF p = <<115, 115, 104>> THEN "-ssh"
    ELSE IF p = <<116, 101, 108, 110, 101, 116>> THEN "-telnet"
    ELSE IF p = <<114, 108, 111, 103, 105, 110>> THEN "-rlogin"
    ELSE IF p = <<115, 101, 114, 105, 97, 108>> THEN "-serial"
    ELSE "-raw"

\* ["-load", sessionName], or for the temporary form
\* [protocolToFlag(protocol), "-P", String(portNum), host].
LaunchArgs(task) ==
    IF task.kind = "temp"
    THEN [flag |-> protocolToFlag(task.values.protocol),
          port |-> NumberToString(Number(task.values.port).val),
          target |-> task.values.host]
    ELSE [flag |-> "-load", port |-> <<>>, target |-> task.sessionName]

\* execFile is called and the handler goes on without awaiting it.
Launched(task) ==
    [task EXCEPT !.exists = "yes", !.launch = "pending", !.args = LaunchArgs(task),
                 !.pc = "done"]

\* A failed check after which the executable is started all the same.
MutPathNotFound(task) == [Launched(task) EXCEPT !.exists = "no"]

PathNotFound(task) ==
    [Ended(task, "PuTTY path not found") EXCEPT !.exists = "no"]

\* The continuation after `await fileExists(puttyPath)` in the create, edit
\* and temporary forms and in launchSession.
FileExistsDone(t, exists) ==
    /\ tasks[t].pc = "exists"
    /\ tasks[t].kind \in {"create", "edit", "temp", "launch"}
    /\ tasks' = [tasks EXCEPT ![t] = IF exists THEN Launched(@) ELSE PathNotFound(@)]
    /\ UNCHANGED <<registry, sessions, isLoading>>

\* The callback of execFile: the executable ended, or could not be started.
LaunchExit(t, error) ==
    /\ tasks[t].launch = "pending"
    /\ tasks' = [tasks EXCEPT ![t] =
            IF error
            THEN [@ EXCEPT !.launch = "failed",
                           !.toasts = @ \cup {"Failed to launch PuTTY"}]
            ELSE [@ EXCEPT !.launch = "ok"]]
    /\ UNCHANGED <<registry, sessions, isLoading>>

(***************************************************************************)
(* search-connections: TempEditForm.handleSubmit, launchSession,           *)
(* deleteSession, and the forms' effect that reads the session             *)
(***************************************************************************)
TempSubmit(t, sessionName, values) ==
    /\ Free(t)
    /\ ~CreateBusy
    /\ sessionName \in SessionNames
    /\ LET task == Started("temp", sessionName, values)
       IN  tasks' = [tasks EXCEPT ![t] = Validated(task, [task EXCEPT !.pc = "exists"])]
    /\ UNCHANGED <<registry, sessions, isLoading>>

launchSession(t, sessionName) ==
    /\ Free(t)
    /\ ~CreateBusy
    /\ sessionName \in SessionNames
    /\ tasks' = [tasks EXCEPT ![t] =
            [Started("launch", sessionName, NoForm) EXCEPT !.pc = "exists"]]
    /\ UNCHANGED <<registry, sessions, isLoading>>

\* deleteSession up to its exec of reg delete "<key>" /f.
deleteSession(t, sessionName) ==
    /\ Free(t)
    /\ ~CreateBusy
    /\ sessionName \in SessionNames
    /\ tasks' = [tasks EXCEPT ![t] =
            [Started("delete", sessionName, NoForm) EXCEPT !.pc = "delete"]]
    /\ UNCHANGED <<registry, sessions, isLoading>>

\* A delete that leaves the snapshot as it was.
MutFilterOut(prev, sessionName) == prev

\* prev.filter((s) => s.name !== sessionName)
RECURSIVE FilterOut(_, _)
FilterOut(prev, sessionName) ==
    IF prev = <<>> THEN <<>>
    ELSE IF Head(prev).name # sessionName
         THEN <<Head(prev)>> \o FilterOut(Tail(prev), sessionName)
         ELSE FilterOut(Tail(prev), sessionName)

\* The callback of reg delete: reg fails when the key is not there, or for
\* a reason of its own (err).
DeleteDone(t, err) ==
    /\ tasks[t].pc = "delete"
    /\ LET key   == encodeSessionKey(tasks[t].sessionName)
           error == err \/ key \notin DOMAIN registry
       IN  IF error
           THEN /\ tasks' = [tasks EXCEPT ![t] =
                        [Ended(@, "Failed to delete session") EXCEPT !.error = TRUE]]
                /\ UNCHANGED <<registry, sessions>>
           ELSE /\ registry' = RegDelete(registry, key)
                /\ tasks' = [tasks EXCEPT ![t] = Ended(@, "Deleted")]
                /\ sessions' = FilterOut(sessions, tasks[t].sessionName)
    /\ UNCHANGED isLoading

\* The useEffect of EditConnectionForm and TempEditForm, up to its exec of
\* reg query "<key>".
OpenForm(t, sessionName) ==
    /\ Free(t)
    /\ ~CreateBusy
    /\ sessionName \in SessionNames
    /\ tasks' = [tasks EXCEPT ![t] =
            [Started("read", sessionName, NoForm) EXCEPT !.pc = "query"]]
    /\ UNCHANGED <<registry, sessions, isLoading>>

\* The callback of that reg query, and setInitial(vals).
ReadDone(t, err) ==
    /\ tasks[t].pc = "query"
    /\ tasks[t].kind = "read"
    /\ LET error == err \/ encodeSessionKey(tasks[t].sessionName) \notin DOMAIN registry
       IN  tasks' = [tasks EXCEPT ![t] =
               [@ EXCEPT !.pc = "done", !.error = error,
                         !.result = readSessionValues(registry, tasks[t].sessionName, error)]]
    /\ UNCHANGED <<registry, sessions, isLoading>>

(***************************************************************************)
(* search-connections: Command, its useEffect                              *)
(***************************************************************************)
\* The list view opens, for the first time or again: fresh state, and the
\* effect starts with fileExists(puttyPath).
OpenList ==
    /\ ~ListViewBusy
    /\ ~CreateBusy
    /\ tasks' = [tasks EXCEPT ![0] = [Started("mount", <<>>, NoForm) EXCEPT !.pc = "exists"]]
    /\ sessions' = <<>>
    /\ isLoading' = TRUE
    /\ UNCHANGED registry

\* After `await fileExists(puttyPath)`: the toast when it is missing, then
\* listPuttySessions() either way.
MountChecked(exists) ==
    /\ tasks[0].pc = "exists"
    /\ tasks' = [tasks EXCEPT ![0] =
            [@ EXCEPT !.pc = "query",
                      !.exists = IF exists THEN "yes" ELSE "no",
                      !.toasts = IF exists THEN @ ELSE @ \cup {"PuTTY path not found"}]]
    /\ UNCHANGED <<registry, sessions, isLoading>>

\* The callback of reg query "<root>", then setSessions and setIsLoading.
MountListed(err) ==
    /\ tasks[0].pc = "query"
    /\ tasks' = [tasks EXCEPT ![0] = [@ EXCEPT !.pc = "done", !.error = err]]
    /\ sessions' = listPuttySessions(registry, err)
    /\ isLoading' = FALSE
    /\ UNCHANGED registry

(***************************************************************************)
(* The handlers' inputs and the sessions the registry holds at the start.  *)
(***************************************************************************)
\* Saved by PuTTY itself before the extension runs: the session "a".
PresetKeys == {<<97>>}

PresetValues ==
    [HostName |-> <<<<112>>>>, PortNumber |-> <<23>>,
     Protocol |-> <<<<114, 97, 119>>>>, CloseOnExit |-> <<<<111, 110, 101, 120, 105, 116>>>>]

PresetRegistry(keys) == [k \in keys |-> PresetValues]

\* The text of the form's fields: host "h", port "22", ssh, never.
ValidForm ==
    [host |-> <<104>>, port |-> <<50, 50>>, protocol |-> <<115, 115, 104>>,
     closeOnExit |-> <<110, 101, 118, 101, 114>>, save |-> FALSE, savedName |-> <<>>]

\* The valid form, the form without a host, the form with port "0".
FlowForms ==
    {ValidForm, [ValidForm EXCEPT !.host = <<>>], [ValidForm EXCEPT !.port = <<48>>]}

\* The create form adds the checkbox and the saved name "c".
CreateForms ==
    {[f EXCEPT !.save = TRUE, !.savedName = <<99>>] : f \in FlowForms}
    \cup {[ValidForm EXCEPT !.savedName = <<99>>]}

Init ==
    /\ registry = PresetRegistry(PresetKeys)
    /\ sessions = <<>>
    /\ isLoading = TRUE
    /\ tasks = [t \in 0..MaxTasks |-> Idle]

Next ==
    \/ \E t \in Slots, values \in CreateForms : CreateSubmit(t, values)
    \/ \E t \in Slots, n \in SessionNames, values \in FlowForms : EditSubmit(t, n, values)
    \/ \E t \in Slots, n \in SessionNames, values \in FlowForms : TempSubmit(t, n, values)
    \/ \E t \in Slots, n \in SessionNames : launchSession(t, n)
    \/ \E t \in Slots, n \in SessionNames : deleteSession(t, n)
    \/ \E t \in Slots, n \in SessionNames : OpenForm(t, n)
    \/ \E t \in Slots, err \in BOOLEAN : KeyCreated(t, err)
    \/ \E t \in Slots, err \in BOOLEAN : CommandDone(t, err)
    \/ \E t \in Slots, exists \in BOOLEAN : FileExistsDone(t, exists)
    \/ \E t \in Slots, error \in BOOLEAN : LaunchExit(t, error)
    \/ \E t \in Slots, err \in BOOLEAN : DeleteDone(t, err)
    \/ \E t \in Slots, err \in BOOLEAN : ReadDone(t, err)
    \/ OpenList
    \/ \E exists \in BOOLEAN : MountChecked(exists)
    \/ \E err \in BOOLEAN : MountListed(err)

Spec == Init /\ [][Next]_vars

(***************************************************************************)
(* SpecValues: one form submit, then the forms that read the session back, *)
(* one after the other, over the values a form can carry.                  *)
(***************************************************************************)
\* Hosts "h", " h", "h h"; ports "1", "65535"; every protocol and
\* close-on-exit value.
ValueForms ==
    [host : {<<104>>, <<32, 104>>, <<104, 32, 104>>},
     port : {<<49>>, <<54, 53, 53, 51, 53>>},
     protocol : ProtocolValues,
     closeOnExit : CloseOnExitValues,
     save : {FALSE},
     savedName : {<<>>}]

\* Port texts "", "0", "65536", "1.5", "ab", "-1", "22.0", " 22", "0x16"
\* and "1e3", with host "h" and with no host.
PortForms ==
    {[ValidForm EXCEPT !.host = host, !.port = port] :
        host \in {<<>>, <<104>>},
        port \in {<<>>, <<48>>, <<54, 53, 53, 51, 54>>, <<49, 46, 53>>, <<97, 98>>,
                  <<45, 49>>, <<50, 50, 46, 48>>, <<32, 50, 50>>, <<48, 120, 49, 54>>,
                  <<49, 101, 51>>}}

SubmitForms == ValueForms \cup PortForms

NoneInProgress == \A t \in DOMAIN tasks : ~InProgress(tasks[t])

NextValues ==
    \/ OpenList
    \/ \E exists \in BOOLEAN : MountChecked(exists)
    \/ \E err \in BOOLEAN : MountListed(err)
    \/ \E values \in SubmitForms :
          CreateSubmit(1, [values EXCEPT !.save = TRUE, !.savedName = <<99>>])
    \/ \E n \in SessionNames, values \in SubmitForms : EditSubmit(1, n, values)
    \/ \E n \in SessionNames, values \in SubmitForms : TempSubmit(1, n, values)
    \/ \E err \in BOOLEAN : KeyCreated(1, err)
    \/ \E err \in BOOLEAN : CommandDone(1, err)
    \/ \E exists \in BOOLEAN : FileExistsDone(1, exists)
    \/ \E error \in BOOLEAN : LaunchExit(1, error)
    \/ \E t \in Slots, n \in SessionNames :
          NoneInProgress /\ tasks[1].kind # "idle" /\ OpenForm(t, n)
    \/ \E t \in Slots, err \in BOOLEAN : ReadDone(t, err)

SpecValues == Init /\ [][NextValues]_vars

(***************************************************************************)
(* SpecCodec: the session names.  The registry starts with sessions PuTTY  *)
(* saved; the create form saves one more under a name drawn from           *)
(* CodecNames, and the list view lists them.                               *)
(***************************************************************************)
\* a \ % 2 5
NameAlphabet == {97, 92, 37, 50, 53}

RECURSIVE Strings(_, _)
Strings(alphabet, n) ==
    IF n = 0 THEN {<<>>}
    ELSE LET shorter == Strings(alphabet, n - 1)
         IN  shorter \cup {Append(s, c) : s \in shorter, c \in alphabet}

CodecNames == Strings(NameAlphabet, MaxNameLen) \ {<<>>}

\* Keys as PuTTY writes them for the sessions "a", "B", "b@" and "a b": it
\* escapes the space and leaves the @.
CodecPresetKeys == {<<97>>, <<66>>, <<98, 64>>, <<97, 37, 50, 48, 98>>}

InitCodec ==
    /\ registry = PresetRegistry(CodecPresetKeys)
    /\ sessions = <<>>
    /\ isLoading = TRUE
    /\ tasks = [t \in 0..MaxTasks |-> Idle]

NextCodec ==
    \/ \E savedName \in CodecNames :
          CreateSubmit(1, [ValidForm EXCEPT !.save = TRUE, !.savedName = savedName])
    \/ \E err \in BOOLEAN : KeyCreated(1, err)
    \/ CommandDone(1, FALSE)
    \/ \E exists \in BOOLEAN : FileExistsDone(1, exists)
    \/ LaunchExit(1, FALSE)
    \/ OpenList
    \/ MountChecked(TRUE)
    \/ \E err \in BOOLEAN : MountListed(err)
    \/ \E t \in Slots, n \in SessionNames : NoneInProgress /\ deleteSession(t, n)
    \/ \E t \in Slots : DeleteDone(t, FALSE)

SpecCodec == InitCodec /\ [][NextCodec]_vars

(***************************************************************************)
(* SpecCreate: the create form over the hosts and saved names it accepts,  *)
(* white space included, with the checkbox on and off.                     *)
(***************************************************************************)
\* Hosts "h", " " and " h"; saved names "", " ", "c" and " c "; port "22".
NamedForms ==
    {[ValidForm EXCEPT !.host = host, !.save = save, !.savedName = savedName] :
        host \in {<<104>>, <<32>>, <<32, 104>>},
        save \in BOOLEAN,
        savedName \in {<<>>, <<32>>, <<99>>, <<32, 99, 32>>}}

NextCreate ==
    \/ \E values \in NamedForms : CreateSubmit(1, values)
    \/ \E err \in BOOLEAN : KeyCreated(1, err)
    \/ \E err \in BOOLEAN : CommandDone(1, err)
    \/ \E exists \in BOOLEAN : FileExistsDone(1, exists)
    \/ \E error \in BOOLEAN : LaunchExit(1, error)
    \/ OpenList
    \/ \E exists \in BOOLEAN : MountChecked(exists)
    \/ \E err \in BOOLEAN : MountListed(err)

SpecCreate == Init /\ [][NextCreate]_vars

(***************************************************************************)
(* Properties.                                                             *)
(***************************************************************************)
Writer(task) == task.kind \in {"create", "edit"}

Form(task) == task.kind \in {"create", "edit", "temp"}

KeyOf(task) == encodeSessionKey(task.sessionName)

\* A reg add or reg delete of the task has been issued and its callback has
\* not run.
MutationInFlight(task) == task.pc \in {"create_key", "command", "delete"}

\* C1: a write in which every step succeeded, followed by a read of the same
\* session whose query succeeded, returns the { HostName, PortNumber,
\* Protocol, CloseOnExit } that was written.  (In SpecValues slot 1 holds the
\* only write and the reads follow it.)
C1_ReadReturnsWritten ==
    \A t \in Slots :
        ( /\ tasks[t].kind = "read"
          /\ tasks[t].pc = "done"
          /\ ~tasks[t].error
          /\ tasks[1].settled = "resolved"
          /\ tasks[t].sessionName = tasks[1].sessionName )
        => tasks[t].result = WrittenValues(tasks[1].values)

\* The text of a port field that is an integer in [1, 65535].
PortInRange(text) ==
    LET portNum == Number(text)
    IN  portNum.isInt /\ portNum.val >= 1 /\ portNum.val <= 65535

\* C2: a submit of the create, edit or temporary form whose host is empty or
\* whose port text is "0", "65536" or no integer in [1, 65535] issues no
\* registry command and no launch, and ends with one validation toast.
C2_InvalidInputBlocked ==
    \A t \in Slots :
        ( /\ Form(tasks[t])
          /\ \/ tasks[t].values.host = <<>>
             \/ tasks[t].values.port \in {<<48>>, <<54, 53, 53, 51, 54>>}
             \/ ~PortInRange(tasks[t].values.port) )
        => /\ tasks[t].pc = "done"
           /\ tasks[t].log = <<>>
           /\ tasks[t].settles = 0
           /\ tasks[t].exists = "unchecked"
           /\ tasks[t].launch = "none"
           /\ tasks[t].toasts \in {{"Host is required"}, {"Invalid port"}}

\* The edit form was submitted with host "h" and port "65536", and rejected.
C2_Witness ==
    /\ tasks[1].kind = "edit"
    /\ tasks[1].values.host = <<104>>
    /\ tasks[1].values.port = <<54, 53, 53, 51, 54>>
    /\ tasks[1].toasts = {"Invalid port"}
    /\ registry = PresetRegistry(PresetKeys)

\* C3: a session saved under a name, reserved path characters included, is
\* listed under that name: decodeSessionKey(encodeSessionKey(name)) = name.
C3_DecodeInvertsEncode ==
    \A t \in Slots, i \in DOMAIN sessions :
        ( /\ tasks[t].kind = "create"
          /\ sessions[i].id = encodeSessionKey(tasks[t].sessionName) )
        => sessions[i].name = tasks[t].sessionName

\* The session "a\%" was saved and is listed.
C3_Witness ==
    /\ tasks[1].kind = "create"
    /\ tasks[1].sessionName = <<97, 92, 37>>
    /\ \E i \in DOMAIN sessions : sessions[i].name = <<97, 92, 37>>

\* C4 as the spec states it: from the moment the delete action is invoked,
\* the session is not in the snapshot.
C4_RemovedAtInvocation ==
    \A t \in Slots :
        tasks[t].kind = "delete" => tasks[t].sessionName \notin SessionNames

\* C4, amended: invoking the delete leaves the snapshot as it is; the
\* callback of a reg delete that succeeded removes the key, so that list()
\* no longer returns it, and removes the session from the snapshot; the
\* callback of one that failed changes neither.
C4_RemovedOnSuccess ==
    [][\A t \in Slots :
          /\ (tasks[t].kind = "idle" /\ tasks'[t].kind = "delete")
                => sessions' = sessions
          /\ (tasks[t].pc = "delete" /\ tasks'[t].pc = "done" /\ tasks'[t].error)
                => (sessions' = sessions /\ registry' = registry)
          /\ (tasks[t].pc = "delete" /\ tasks'[t].pc = "done" /\ ~tasks'[t].error)
                => /\ tasks[t].sessionName \notin {sessions'[i].name : i \in DOMAIN sessions'}
                   /\ \A i \in DOMAIN sessions :
                         sessions[i].name # tasks[t].sessionName
                         => \E j \in DOMAIN sessions' : sessions'[j] = sessions[i]
                   /\ LET list == listPuttySessions(registry', FALSE)
                      IN  \A i \in DOMAIN list : list[i].id # KeyOf(tasks[t])
    ]_vars

\* "a" was deleted from a snapshot that also listed "c", which stays.
C4_Witness ==
    \E t \in Slots :
        /\ tasks[t].kind = "delete"
        /\ tasks[t].sessionName = <<97>>
        /\ "Deleted" \in tasks[t].toasts
        /\ <<97>> \notin DOMAIN registry
        /\ SessionNames = {<<99>>}

\* The steps of a write, in the order of their exec calls.
WriteOrder == <<"key", "HostName", "PortNumber", "Protocol", "CloseOnExit">>

IsPrefix(a, b) == Len(a) <= Len(b) /\ a = SubSeq(b, 1, Len(a))

\* What the value named vname holds once its step has succeeded.
StoredBy(values, vname) ==
    IF vname = "HostName" THEN values.host
    ELSE IF vname = "PortNumber" THEN Number(values.port).val
    ELSE IF vname = "Protocol" THEN values.protocol
    ELSE values.closeOnExit

\* The step the task issued last has succeeded in this transition.
StepSucceeded(task) ==
    LET step == task.log[Len(task.log)]
    IN  /\ task.pc \in {"create_key", "command"}
        /\ KeyOf(task) \in DOMAIN registry'
        /\ step # "key" => registry'[KeyOf(task)][step] = <<StoredBy(task.values, step)>>

\* C5: writeRegistryValues issues key creation, HostName, PortNumber,
\* Protocol, CloseOnExit in that order, each only in the callback of the one
\* before it having succeeded; the first failing step rejects, issues
\* nothing more and leaves the registry with what the earlier steps wrote;
\* it resolves only when all five have succeeded, and settles once.
C5_WriteStepsInOrder ==
    [][\A t \in Slots :
          Writer(tasks'[t]) =>
            /\ IsPrefix(tasks'[t].log, WriteOrder)
            /\ tasks'[t].settles = (IF tasks'[t].settled = "pending" THEN 0 ELSE 1)
            /\ Len(tasks'[t].log) > Len(tasks[t].log)
                  => /\ Len(tasks'[t].log) = Len(tasks[t].log) + 1
                     /\ tasks[t].settled = "pending"
                     /\ tasks[t].log # <<>> => StepSucceeded(tasks[t])
            /\ (tasks[t].settled = "pending" /\ tasks'[t].settled = "rejected")
                  => /\ tasks[t].pc \in {"create_key", "command"}
                     /\ registry' = registry
                     /\ tasks'[t].log = tasks[t].log
                     /\ tasks'[t].pc = "done"
            /\ (tasks[t].settled = "pending" /\ tasks'[t].settled = "resolved")
                  => /\ tasks[t].log = WriteOrder
                     /\ StepSucceeded(tasks[t])
            /\ tasks[t].settled # "pending"
                  => /\ tasks'[t].settled = tasks[t].settled
                     /\ tasks'[t].log = tasks[t].log
    ]_vars

\* The edit of "a" failed at its Protocol step: the HostName and PortNumber
\* it wrote are in the registry, beside the Protocol and CloseOnExit that
\* were there.
C5_Witness ==
    \E t \in Slots :
        /\ tasks[t].kind = "edit"
        /\ tasks[t].settled = "rejected"
        /\ tasks[t].log = <<"key", "HostName", "PortNumber", "Protocol">>
        /\ <<97>> \in DOMAIN registry
        /\ registry[<<97>>] =
              [HostName |-> <<ValidForm.host>>, PortNumber |-> <<22>>,
               Protocol |-> PresetValues.Protocol,
               CloseOnExit |-> PresetValues.CloseOnExit]

\* The record the spec gives: host empty, port 23, protocol raw,
\* close-on-exit onexit.
DefaultRecord ==
    [HostName |-> <<>>, PortNumber |-> 23,
     Protocol |-> <<114, 97, 119>>, CloseOnExit |-> <<111, 110, 101, 120, 105, 116>>]

\* C6: readSessionValues always ends with a record and no error shown: the
\* default record when the query failed or the key is missing, and else a
\* record in which every value the key does not hold has its default.
C6_ReadFallsBackToDefaults ==
    [][\A t \in Slots :
          (tasks[t].pc = "query" /\ tasks[t].kind = "read" /\ tasks'[t].pc # "query")
          => /\ tasks'[t].pc = "done"
             /\ tasks'[t].toasts = {}
             /\ registry' = registry
             /\ IF tasks'[t].error \/ KeyOf(tasks[t]) \notin DOMAIN registry
                THEN tasks'[t].result = DefaultRecord
                ELSE \A vname \in DOMAIN DefaultRecord :
                        registry[KeyOf(tasks[t])][vname] = <<>>
                        => tasks'[t].result[vname] = DefaultRecord[vname]
    ]_vars

\* "c" was read while its write had stored HostName only: the host is the
\* stored one, the port, protocol and close-on-exit are the defaults.
C6_Witness ==
    \E t \in Slots :
        /\ tasks[t].kind = "read"
        /\ tasks[t].pc = "done"
        /\ ~tasks[t].error
        /\ tasks[t].result = [DefaultRecord EXCEPT !.HostName = ValidForm.host]

\* C7: the executable is started only by an operation whose check of the
\* configured path succeeded; an operation whose check failed shows
\* "PuTTY path not found" and starts nothing.
C7_LaunchOnlyAfterCheck ==
    \A t \in DOMAIN tasks :
        /\ tasks[t].launch # "none" => tasks[t].exists = "yes"
        /\ tasks[t].args # NoArgs => tasks[t].exists = "yes"
        /\ tasks[t].exists = "no"
              => /\ "PuTTY path not found" \in tasks[t].toasts
                 /\ tasks[t].launch = "none"
                 /\ tasks[t].args = NoArgs

\* A saved session was opened, a temporary one was refused for the path.
C7_Witness ==
    \E t, u \in Slots :
        /\ tasks[t].kind = "launch"
        /\ tasks[t].launch = "ok"
        /\ tasks[t].args.flag = "-load"
        /\ tasks[u].kind = "temp"
        /\ tasks[u].exists = "no"

FailureTitles ==
    {"Host is required", "Invalid port", "Failed to save session",
     "Failed to update session", "Failed to delete session",
     "PuTTY path not found", "Failed to launch PuTTY"}

\* The operation has failed: in its validation, its write, its delete, its
\* read, its list query, its check of the executable, or its launch.
Failed(task) ==
    \/ Form(task) /\ (task.values.host = <<>> \/ ~PortInRange(task.values.port))
    \/ task.settled = "rejected"
    \/ task.kind \in {"delete", "read", "mount"} /\ task.pc = "done" /\ task.error
    \/ task.exists = "no"
    \/ task.launch = "failed"

C9_ListedSortedByName ==
    [][(tasks[0].pc = "query" /\ tasks'[0].pc = "done" /\ ~tasks'[0].error)
       => /\ {sessions'[i].id : i \in DOMAIN sessions'} = DOMAIN registry \ {<<>>}
          /\ Len(sessions') = Cardinality(DOMAIN registry \ {<<>>})
          /\ \A i \in DOMAIN sessions' :
                sessions'[i].name = decodeSessionKey(sessions'[i].id)
          /\ \A i \in 1..(Len(sessions') - 1) :
                localeCompare(sessions'[i].name, sessions'[i + 1].name) <= 0
    ]_vars

\* The list holds "a" before "B", which code point order puts the other way
\* round, and a name that differs from its key.
C9_Witness ==
    /\ tasks[0].pc = "done"
    /\ \E i \in 1..(Len(sessions) - 1) :
          sessions[i].name = <<97>> /\ sessions[i + 1].name = <<66>>
    /\ \E i \in DOMAIN sessions : sessions[i].name # sessions[i].id

\* C10: no two registry mutations, write steps or delete, of the same
\* session are in flight at the same time.
C10_OneMutationInFlight ==
    \A t, u \in Slots :
        ( /\ t # u
          /\ MutationInFlight(tasks[t])
          /\ MutationInFlight(tasks[u]) )
        => KeyOf(tasks[t]) # KeyOf(tasks[u])

\* C11: for every entry {id, name} of the list, the key that delete, read
\* and the edit write address, encodeSessionKey(name), is the key the entry
\* was enumerated from: encodeSessionKey(decodeSessionKey(id)) = id.
C11_EntryAddressesItsKey ==
    \A i \in DOMAIN sessions :
        /\ sessions[i].name = decodeSessionKey(sessions[i].id)
        /\ encodeSessionKey(sessions[i].name) = sessions[i].id

\* C12: a create form that passed validation with save on hands
\* writeRegistryValues a session name that is not empty, so that every
\* write it issues addresses root + "\" + a segment that is not empty.
C12_CreateWritesChildKey ==
    \A t \in Slots :
        (tasks[t].kind = "create" /\ tasks[t].log # <<>>)
        => /\ tasks[t].sessionName # <<>>
           /\ KeyOf(tasks[t]) # <<>>

\* C13: the create and edit flows start the executable, with -load and the
\* session name, only after the five write steps of that name have
\* succeeded: the flow reaches its check of the path in the transition in
\* which its CloseOnExit step, the fifth, succeeds, and launches from there;
\* a flow whose write failed shows its save or update failure and never
\* checks the path or launches.
C13_LoadOnlyAfterWrite ==
    [][\A t \in Slots :
          Writer(tasks'[t]) =>
            /\ (tasks[t].pc # "exists" /\ tasks'[t].pc = "exists")
                  => /\ tasks[t].log = WriteOrder
                     /\ StepSucceeded(tasks[t])
                     /\ tasks'[t].settled = "resolved"
            /\ (tasks[t].launch = "none" /\ tasks'[t].launch # "none")
                  => /\ tasks[t].pc = "exists"
                     /\ tasks[t].settled = "resolved"
                     /\ tasks[t].log = WriteOrder
                     /\ tasks'[t].args =
                           [flag |-> "-load", port |-> <<>>,
                            target |-> tasks[t].sessionName]
            /\ tasks'[t].settled = "rejected"
                  => /\ (IF tasks'[t].kind = "create" THEN "Failed to save session"
                         ELSE "Failed to update session") \in tasks'[t].toasts
                     /\ tasks'[t].exists = "unchecked"
                     /\ tasks'[t].launch = "none"
                     /\ tasks'[t].args = NoArgs
    ]_vars

\* The session "c" was saved and opened; the edit of "a" failed at a step
\* and opened nothing.
C13_Witness ==
    \E t, u \in Slots :
        /\ tasks[t].kind = "create"
        /\ tasks[t].launch = "ok"
        /\ tasks[t].args.target = <<99>>
        /\ <<99>> \in DOMAIN registry
        /\ registry[<<99>>].CloseOnExit = <<ValidForm.closeOnExit>>
        /\ tasks[u].kind = "edit"
        /\ tasks[u].settled = "rejected"
        /\ tasks[u].launch = "none"

=============================================================================
